---- MODULE Spec2Model ----
(***************************************************************************)
(* display-interface: the framing adapters (SPI, I2C, parallel GPIO) that  *)
(* move a DataFormat payload to a transport.  Every adapter is a record    *)
(* variable; every bus or pin operation of a call is one step, recorded in *)
(* the adapter's log of the current call.                                  *)
(***************************************************************************)
EXTENDS Integers, Sequences, FiniteSets, TLC

VARIABLES
    host_le,    \* byte order of the build target: TRUE little endian
    spi,        \* SPI adapter (synchronous with or without chip select, or asynchronous) and its pins
    i2c,        \* I2C adapter and the writes of its current call
    bus,        \* Generic8BitBus: the data pins and the cached value
    par,        \* 8-bit parallel adapter with its DC and WR pins
    rd          \* a call of the default read(buf) of a read interface

vars == <<host_le, spi, i2c, bus, par, rd>>

(***************************************************************************)
(* Bounds of the model.                                                    *)
(***************************************************************************)
\* longest iterator payload handed to the SPI adapter
MaxIterLen == 65
\* longest slice payload handed to the SPI adapter
MaxSliceLen == 3
\* longest payload handed to the I2C adapter
MaxI2cLen == 33
\* longest byte payload handed to the parallel adapter
MaxParLen == 3
\* longest 16-bit payload handed to the parallel adapter
MaxParWords == 2
\* most set_value calls made on a bus used on its own
MaxBusCalls == 2
\* longest buffer handed to read
MaxBufLen == 3
\* most items a read_stream implementation hands to its callback in one call
MaxStreamLen == 4

(***************************************************************************)
(* DataFormat and DisplayError                                             *)
(***************************************************************************)
SliceFormats == {"U8", "U16", "U16BE", "U16LE"}

IterFormats == {"U8Iter", "U16BEIter", "U16LEIter"}

DataFormat == SliceFormats \cup IterFormats

ByteFormats == {"U8", "U8Iter"}

Kinds == {"commands", "data"}

\* payload patterns: first value and stride
Seeds == {<<17, 37>>, <<0, 17>>}

\* the k-th byte of the byte payload with this pattern
ByteAt(seed, k) == (seed[1] + seed[2] * k) % 256

\* the k-th 16-bit value of the word payload with this pattern
WordAt(seed, k) == ByteAt(seed, k) * 256 + ((seed[1] + 91 * k + 1) % 256)

\* the payload of a format: len items following the seed's pattern
Payload(fmt, len, seed) ==
    IF fmt \in ByteFormats
    THEN [k \in 1..len |-> ByteAt(seed, k)]
    ELSE [k \in 1..len |-> WordAt(seed, k)]

MaxLenOf(fmt) == IF fmt \in IterFormats THEN MaxIterLen ELSE MaxSliceLen

(***************************************************************************)
(* 16-bit byte order (core::u16) and byte_slice_cast                       *)
(***************************************************************************)
swap_bytes(v) == (v % 256) * 256 + (v \div 256)

\* a faulty variant of to_le: the bytes are swapped on every host
ToLeSwapped(v) == swap_bytes(v)

to_le(v) == IF host_le THEN v ELSE swap_bytes(v)

\* a faulty variant of to_be: the value is left in the host's byte order
ToBeNative(v) == v

to_be(v) == IF host_le THEN swap_bytes(v) ELSE v

\* the two bytes of a u16 as they lie in memory on the build target
NativeBytes(v) == IF host_le THEN <<v % 256, v \div 256>> ELSE <<v \div 256, v % 256>>

RECURSIVE as_byte_slice(_)
as_byte_slice(ws) ==
    IF ws = <<>> THEN <<>> ELSE NativeBytes(Head(ws)) \o as_byte_slice(Tail(ws))

Zeros(n) == [k \in 1..n |-> 0]

(***************************************************************************)
(* The log of one call: pin and bus operations in the order performed.     *)
(***************************************************************************)
\* the level a pin operation drives: set_high gives "H", set_low gives "L"
LevelOf(op) == IF op \in {"dc_high", "cs_high", "wr_high"} THEN "H" ELSE "L"

PinOp(name, ok) == [op |-> name, ok |-> ok, data |-> <<>>, dc |-> "-"]

WriteOp(bytes, ok, dclevel) == [op |-> "write", ok |-> ok, data |-> bytes, dc |-> dclevel]

(***************************************************************************)
(* spi/src/lib.rs: send_u8                                                 *)
(***************************************************************************)
\* capacity of the chunk buffer of an iterator format, in items
SpiBufLen(fmt) == IF fmt = "U16BEIter" THEN 64 ELSE 32

\* a faulty variant of the iterator's items: the map over the iterator is left out
SpiItemUnmapped(fmt, v) == v

\* iter.map(u16::to_le) / iter.map(u16::to_be) / the bytes as they are
SpiItem(fmt, v) ==
    CASE fmt = "U16LEIter" -> to_le(v)
      [] fmt = "U16BEIter" -> to_be(v)
      [] OTHER -> v

\* the for loop up to its next write: buf[i] = v; i += 1; until i == buf.len()
\* or the iterator is exhausted
RECURSIVE SpiFill(_, _, _, _)
SpiFill(fmt, buf, i, iter) ==
    IF iter = <<>>
    THEN [buf |-> buf, i |-> i, iter |-> iter, full |-> FALSE]
    ELSE LET b == [buf EXCEPT ![i + 1] = SpiItem(fmt, Head(iter))]
             j == i + 1
         IN  IF j = Len(buf)
             THEN [buf |-> b, i |-> j, iter |-> Tail(iter), full |-> TRUE]
             ELSE SpiFill(fmt, b, j, Tail(iter))

\* the bytes of a buffer of items: u8 as they are, u16 through as_byte_slice
SpiBufBytes(fmt, items) == IF fmt = "U8Iter" THEN items ELSE as_byte_slice(items)

\* a faulty variant of the trailing slice: the whole buffer instead of buf[..i]
SpiTailWhole(buf, i) == buf

\* &buf[..i], the slice of the trailing write
SpiTail(buf, i) == SubSeq(buf, 1, i)

\* a faulty variant of the conversion: the caller's slice is left as it was
SpiConvertedNot(fmt, slice) == slice

\* the slice after the in-place conversion of U16LE / U16BE
SpiConverted(fmt, slice) ==
    CASE fmt = "U16LE" -> [k \in 1..Len(slice) |-> to_le(slice[k])]
      [] fmt = "U16BE" -> [k \in 1..Len(slice) |-> to_be(slice[k])]
      [] OTHER -> slice

\* the bytes handed to spi.write for a slice format
SpiSliceBytes(fmt, slice) ==
    IF fmt = "U8" THEN slice ELSE as_byte_slice(SpiConverted(fmt, slice))

(***************************************************************************)
(* i2c/src/lib.rs: I2cInterface                                            *)
(***************************************************************************)
\* the I2C addresses and data mode bytes an adapter is constructed with
I2cAddrs == {60, 61}

DataBytes == {64, 192}

\* the adapter between two calls
I2cIdle(addr, data_byte) ==
    [pc |-> "idle", kind |-> "commands", fmt |-> "U8", orig |-> <<>>,
     rest |-> <<>>, writebuf |-> <<>>, i |-> 0, log |-> <<>>, res |-> "None",
     addr |-> addr, data_byte |-> data_byte]

\* the I2C adapter of a system that does not use it
I2cParked == I2cIdle(60, 64)

\* a faulty variant of the range index: an end past the buffer is cut to its length
RangeInclusiveClamped(buf, lo, hi) ==
    [panic |-> FALSE,
     data |-> SubSeq(buf, lo + 1, IF hi + 1 > Len(buf) THEN Len(buf) ELSE hi + 1)]

\* &buf[lo..=hi] (0-based): the range check and the elements
RangeInclusive(buf, lo, hi) ==
    IF hi + 1 > Len(buf) \/ lo > hi + 1
    THEN [panic |-> TRUE, data |-> <<>>]
    ELSE [panic |-> FALSE, data |-> SubSeq(buf, lo + 1, hi + 1)]

\* a faulty variant of the copy: the chunk copied from index 0, over the mode byte
CopyFromSliceAtZero(buf, chunk) ==
    [k \in 1..Len(buf) |-> IF k \in 1..Len(chunk) THEN chunk[k] ELSE buf[k]]

\* writebuf[1..=n].copy_from_slice(chunk), n = chunk.len()
CopyFromSlice(buf, chunk) ==
    [k \in 1..Len(buf) |-> IF k - 1 \in 1..Len(chunk) THEN chunk[k - 1] ELSE buf[k]]

\* a faulty variant of the chunk size of send_data: one byte short
I2cChunkLenShort == 16 - 1

\* slice.chunks(16)
I2cChunkLen == 16

\* a faulty variant of the trailing test: i > 0, as in the SPI adapter whose i starts at 0
I2cTailPendingFromZero(i) == i > 0

\* if i > 1: the buffer holds payload after the mode byte
I2cTailPending(i) == i > 1

\* a faulty variant of the command path: U8Iter taken as a slice
I2cCommandFormatsWithIter == {"U8", "U8Iter"}

\* the formats send_commands matches
I2cCommandFormats == {"U8"}

\* the formats send_data matches
I2cDataFormats == {"U8", "U8Iter"}

Min(a, b) == IF a < b THEN a ELSE b

I2cWrite(addr, bytes, ok) == [addr |-> addr, data |-> bytes, ok |-> ok]

I2cLog(entry) == Append(i2c.log, entry)

\* a driver calls send_commands or send_data with a payload
I2cCall ==
    /\ i2c.pc = "idle"
    /\ \E kind \in Kinds, fmt \in DataFormat, seed \in Seeds :
         \E len \in 0..MaxI2cLen :
            LET p == Payload(fmt, len, seed) IN
            i2c' = [i2c EXCEPT !.pc = "match", !.kind = kind, !.fmt = fmt,
                               !.orig = p, !.rest = p, !.writebuf = <<>>, !.i = 0,
                               !.log = <<>>, !.res = "None"]
    /\ UNCHANGED <<host_le, rd, spi, bus, par>>

\* send_commands, DataFormat::U8: the command prefix, the copy, one write
I2c_send_commands_u8 ==
    /\ i2c.pc = "match"
    /\ i2c.kind = "commands"
    /\ i2c.fmt \in I2cCommandFormats
    /\ LET n == Len(i2c.rest)
           zero == Zeros(8)
           dst == RangeInclusive(zero, 1, n)
           buf == CopyFromSlice(zero, i2c.rest)
           out == RangeInclusive(buf, 0, n)
       IN  IF dst.panic \/ out.panic
           THEN i2c' = [i2c EXCEPT !.pc = "ret", !.res = "Panic", !.writebuf = zero]
           ELSE \E ok \in BOOLEAN :
                  i2c' = [i2c EXCEPT !.pc = "ret", !.writebuf = buf,
                                     !.res = IF ok THEN "Ok" ELSE "BusWriteError",
                                     !.log = I2cLog(I2cWrite(i2c.addr, out.data, ok))]
    /\ UNCHANGED <<host_le, rd, spi, bus, par>>

\* send_commands, any other format; send_data, neither U8 nor U8Iter
I2c_not_implemented ==
    /\ i2c.pc = "match"
    /\ \/ i2c.kind = "commands" /\ i2c.fmt \notin I2cCommandFormats
       \/ i2c.kind = "data" /\ i2c.fmt \notin I2cDataFormats
    /\ i2c' = [i2c EXCEPT !.pc = "ret", !.res = "DataFormatNotImplemented"]
    /\ UNCHANGED <<host_le, rd, spi, bus, par>>

\* send_data, DataFormat::U8: no-op if empty, else the data mode byte
I2c_send_data_u8_begin ==
    /\ i2c.pc = "match"
    /\ i2c.kind = "data"
    /\ i2c.fmt = "U8"
    /\ i2c' = IF i2c.rest = <<>>
              THEN [i2c EXCEPT !.pc = "ret", !.res = "Ok"]
              ELSE [i2c EXCEPT !.pc = "chunks",
                               !.writebuf = [Zeros(17) EXCEPT ![1] = i2c.data_byte]]
    /\ UNCHANGED <<host_le, rd, spi, bus, par>>

\* send_data, DataFormat::U8: one chunk of slice.chunks(16) and its write
I2c_send_data_u8_chunk ==
    /\ i2c.pc = "chunks"
    /\ LET chunk_len == Min(I2cChunkLen, Len(i2c.rest))
           chunk == SubSeq(i2c.rest, 1, chunk_len)
           rest == SubSeq(i2c.rest, chunk_len + 1, Len(i2c.rest))
           dst == RangeInclusive(i2c.writebuf, 1, chunk_len)
           buf == CopyFromSlice(i2c.writebuf, chunk)
           out == RangeInclusive(buf, 0, chunk_len)
       IN  IF dst.panic \/ out.panic
           THEN i2c' = [i2c EXCEPT !.pc = "ret", !.res = "Panic"]
           ELSE \E ok \in BOOLEAN :
                  i2c' = [i2c EXCEPT
                            !.pc = IF ok /\ rest # <<>> THEN "chunks" ELSE "ret",
                            !.res = IF ~ok THEN "BusWriteError"
                                    ELSE IF rest = <<>> THEN "Ok" ELSE "None",
                            !.rest = rest, !.writebuf = buf,
                            !.log = I2cLog(I2cWrite(i2c.addr, out.data, ok))]
    /\ UNCHANGED <<host_le, rd, spi, bus, par>>

\* send_data, DataFormat::U8Iter: the buffer, i = 1, the data mode byte
I2c_send_data_iter_begin ==
    /\ i2c.pc = "match"
    /\ i2c.kind = "data"
    /\ i2c.fmt = "U8Iter"
    /\ i2c' = [i2c EXCEPT !.pc = "loop", !.i = 1,
                          !.writebuf = [Zeros(17) EXCEPT ![1] = i2c.data_byte]]
    /\ UNCHANGED <<host_le, rd, spi, bus, par>>

\* the for loop up to its next write: writebuf[i] = byte; i += 1; until i == len
\* or the iterator is exhausted
RECURSIVE I2cFill(_, _, _)
I2cFill(buf, i, iter) ==
    IF iter = <<>>
    THEN [buf |-> buf, i |-> i, iter |-> iter, full |-> FALSE]
    ELSE LET b == [buf EXCEPT ![i + 1] = Head(iter)]
             j == i + 1
         IN  IF j = Len(buf)
             THEN [buf |-> b, i |-> j, iter |-> Tail(iter), full |-> TRUE]
             ELSE I2cFill(b, j, Tail(iter))

\* send_data, DataFormat::U8Iter: the loop up to i == len and &writebuf[0..=len]
I2c_send_data_iter_flush ==
    /\ i2c.pc = "loop"
    /\ LET r == I2cFill(i2c.writebuf, i2c.i, i2c.rest)
           out == RangeInclusive(r.buf, 0, Len(r.buf))
       IN  /\ r.full
           /\ IF out.panic
              THEN i2c' = [i2c EXCEPT !.pc = "ret", !.res = "Panic", !.writebuf = r.buf,
                                      !.i = r.i, !.rest = r.iter]
              ELSE \E ok \in BOOLEAN :
                     i2c' = [i2c EXCEPT
                               !.pc = IF ok THEN "loop" ELSE "ret",
                               !.res = IF ok THEN "None" ELSE "BusWriteError",
                               !.writebuf = r.buf, !.i = IF ok THEN 1 ELSE r.i,
                               !.rest = r.iter,
                               !.log = I2cLog(I2cWrite(i2c.addr, out.data, ok))]
    /\ UNCHANGED <<host_le, rd, spi, bus, par>>

\* send_data, DataFormat::U8Iter: the iterator ends; if i > 1, &writebuf[0..=i]
I2c_send_data_iter_tail ==
    /\ i2c.pc = "loop"
    /\ LET r == I2cFill(i2c.writebuf, i2c.i, i2c.rest)
           out == RangeInclusive(r.buf, 0, r.i)
       IN  /\ ~r.full
           /\ IF I2cTailPending(r.i)
              THEN IF out.panic
                   THEN i2c' = [i2c EXCEPT !.pc = "ret", !.res = "Panic",
                                           !.writebuf = r.buf, !.i = r.i,
                                           !.rest = r.iter]
                   ELSE \E ok \in BOOLEAN :
                          i2c' = [i2c EXCEPT
                                    !.pc = "ret",
                                    !.res = IF ok THEN "Ok" ELSE "BusWriteError",
                                    !.writebuf = r.buf, !.i = r.i, !.rest = r.iter,
                                    !.log = I2cLog(I2cWrite(i2c.addr, out.data, ok))]
              ELSE i2c' = [i2c EXCEPT !.pc = "ret", !.res = "Ok", !.writebuf = r.buf,
                                      !.i = r.i, !.rest = r.iter]
    /\ UNCHANGED <<host_le, rd, spi, bus, par>>

\* the call has returned (or aborted); the driver may call again
I2cReturn ==
    /\ i2c.pc = "ret"
    /\ i2c.res # "Panic"
    /\ i2c' = I2cIdle(i2c.addr, i2c.data_byte)
    /\ UNCHANGED <<host_le, rd, spi, bus, par>>

\* I2CInterface::release: the I2C peripheral is handed back
I2cRelease ==
    /\ i2c.pc = "idle"
    /\ i2c' = [i2c EXCEPT !.pc = "released"]
    /\ UNCHANGED <<host_le, rd, spi, bus, par>>

(***************************************************************************)
(* parallel-gpio/src/lib.rs: Generic8BitBus                                *)
(***************************************************************************)
\* the pins of the tuple: P0 => 0 .. P7 => 7
BusWidth == 8

\* u8::MAX
WordMax == 255

\* 1 << x
Pow2(x) == <<1, 2, 4, 8, 16, 32, 64, 128, 256>>[x + 1]

Bit(v, x) == (v \div Pow2(x)) % 2

\* value ^ self.last
RECURSIVE BitXor(_, _, _)
BitXor(a, b, x) ==
    IF x = BusWidth THEN 0
    ELSE ((Bit(a, x) + Bit(b, x)) % 2) * Pow2(x) + BitXor(a, b, x + 1)

\* changed & mask, value & mask, with mask = 1 << x
AndMask(v, x) == Bit(v, x) * Pow2(x)

BusPinOp(x, level, ok) == [pin |-> x, level |-> level, ok |-> ok]

\* a faulty variant of the choice of the pin operation: set_high and set_low swapped
LineLevelSwapped(value, x) == IF AndMask(value, x) # 0 THEN "L" ELSE "H"

\* if value & mask != 0 { set_high() } else { set_low() }
LineLevel(value, x) == IF AndMask(value, x) # 0 THEN "H" ELSE "L"

\* the macro's repetition over the pins; the pin operation of pin failAt fails
RECURSIVE DrivePins(_, _, _, _, _, _)
DrivePins(pins, ops, changed, value, x, failAt) ==
    IF x = BusWidth
    THEN [pins |-> pins, ops |-> ops, ok |-> TRUE]
    ELSE IF AndMask(changed, x) # 0
         THEN LET level == LineLevel(value, x) IN
              IF failAt = x
              THEN [pins |-> pins, ops |-> Append(ops, BusPinOp(x, level, FALSE)),
                    ok |-> FALSE]
              ELSE DrivePins([pins EXCEPT ![x + 1] = level],
                             Append(ops, BusPinOp(x, level, TRUE)),
                             changed, value, x + 1, failAt)
         ELSE DrivePins(pins, ops, changed, value, x + 1, failAt)

\* a faulty variant of the cache update: self.last is left as it was
CacheKept(last, value) == last

\* self.last = value
CacheUpdated(last, value) == value

\* a faulty variant of the error path: the cache takes the value although a line failed
CacheOnErrorUpdated(last, value) == value

\* `?` on a failed pin operation returns before `self.last = value`
CacheOnError(last, value) == last

\* a faulty variant of the error of a data line: reported as a mode pin error
DataLineErrorAsDc == "DCError"

\* .map_err(|_| DisplayError::BusWriteError) on a data line's pin operation
DataLineError == "BusWriteError"

\* Generic8BitBus::set_value (faulted records that a pin operation has failed,
\* used that a word has been presented since new; prev, arg, ops and res record
\* the latest call)
set_value(b, value, failAt) ==
    LET changed == BitXor(value, b.last, 0) IN
    IF changed # 0
    THEN LET r == DrivePins(b.pins, <<>>, changed, value, 0, failAt) IN
         IF r.ok
         THEN [b EXCEPT !.pins = r.pins, !.last = CacheUpdated(b.last, value),
                        !.used = TRUE,
                        !.prev = b.last, !.arg = value, !.ops = r.ops, !.res = "Ok"]
         ELSE [b EXCEPT !.pins = r.pins, !.last = CacheOnError(b.last, value),
                        !.faulted = TRUE, !.used = TRUE,
                        !.prev = b.last, !.arg = value, !.ops = r.ops,
                        !.res = DataLineError]
    ELSE [b EXCEPT !.used = TRUE,
                   !.prev = b.last, !.arg = value, !.ops = <<>>, !.res = "Ok"]

\* the pin operations failAt can stand for: one pin, or BusWidth for none
FailAts == 0..BusWidth

\* a faulty variant of the bus before new: the cache starts at 0, not at MAX
BusUnbuiltZero ==
    [state |-> "none", last |-> 0, pins |-> [x \in 1..BusWidth |-> "U"],
     prev |-> 0, arg |-> 0, ops |-> <<>>, res |-> "None", calls |-> 0,
     faulted |-> FALSE, used |-> FALSE]

\* the pins before Generic8BitBus::new: no line has been driven
BusUnbuilt ==
    [state |-> "none", last |-> WordMax, pins |-> [x \in 1..BusWidth |-> "U"],
     prev |-> WordMax, arg |-> 0, ops |-> <<>>, res |-> "None", calls |-> 0,
     faulted |-> FALSE, used |-> FALSE]

\* Generic8BitBus::new: last = MAX, set_value(0)?, Ok(bus)
BusNew ==
    /\ bus.state = "none"
    /\ \E failAt \in FailAts :
         LET b == set_value(bus, 0, failAt) IN
         bus' = [b EXCEPT !.state = IF b.res = "Ok" THEN "ready" ELSE "failed",
                          !.used = FALSE]
    /\ UNCHANGED <<host_le, rd, spi, i2c, par>>

(***************************************************************************)
(* parallel-gpio/src/lib.rs: PGPIO8BitInterface                            *)
(***************************************************************************)
\* the parallel adapter between two calls (fresh: the bus had been presented no
\* word since new when the call began)
ParIdle(dc, wr) ==
    [pc |-> "idle", kind |-> "commands", fmt |-> "U8", orig |-> <<>>, src |-> <<>>,
     cur |-> <<>>, step |-> 1, log |-> <<>>, res |-> "None", dc |-> dc, wr |-> wr,
     fresh |-> FALSE]

\* the parallel adapter of a system that does not use it
ParParked == ParIdle("H", "H")

\* the bytes and the 16-bit values a payload is made of
ParBytes == {0, 255}

ParWords == {255, 42435}

SeqsUpTo(S, n) == UNION {[1..k -> S] : k \in 0..n}

ParPayloads(fmt) ==
    IF fmt \in ByteFormats THEN SeqsUpTo(ParBytes, MaxParLen)
    ELSE SeqsUpTo(ParWords, MaxParWords)

ParPin(name, ok) == [op |-> name, ok |-> ok, value |-> 0, pins |-> <<>>]

ParBus(value, ops, ok) == [op |-> "set_value", ok |-> ok, value |-> value, pins |-> ops]

ParLog(entry) == Append(par.log, entry)

\* a faulty variant of the mode pin operation: polarity inverted
ParDcOpInverted(kind) == IF kind = "commands" THEN "dc_high" ELSE "dc_low"

\* send_commands drives DC low, send_data drives DC high
ParDcOp(kind) == IF kind = "commands" THEN "dc_low" ELSE "dc_high"

\* a faulty variant of the formats matched: send_commands has the arms of send_data
ParFormatsAll(kind) == DataFormat

\* the formats each method matches
ParFormats(kind) ==
    IF kind = "commands" THEN {"U8", "U8Iter", "U16", "U16LE", "U16BE"}
    ELSE DataFormat

\* cmd.to_le_bytes() / cmd.to_be_bytes()
to_le_bytes(v) == <<v % 256, v \div 256>>

\* a faulty variant of to_be_bytes: low byte first
ToBeBytesLowFirst(v) == <<v % 256, v \div 256>>

to_be_bytes(v) == <<v \div 256, v % 256>>

\* the bytes one item of the payload is emitted as
ParItemBytes(fmt, v) ==
    CASE fmt \in {"U8", "U8Iter"} -> <<v>>
      [] fmt = "U16" -> NativeBytes(v)
      [] fmt \in {"U16LE", "U16LEIter"} -> to_le_bytes(v)
      [] fmt \in {"U16BE", "U16BEIter"} -> to_be_bytes(v)

\* a faulty variant of the body of the per-byte loop: the value is set before WR goes low
ParLoopBodyValueFirst == <<"set_value", "wr_low", "wr_high">>

\* the body of the per-byte loop: wr.set_low()?; set_value(b)?; wr.set_high()
ParLoopBody == <<"wr_low", "set_value", "wr_high">>

\* a driver calls send_commands or send_data with a payload
ParCall ==
    /\ par.pc = "idle"
    /\ bus.state = "ready"
    /\ \E kind \in Kinds, fmt \in DataFormat :
         \E p \in ParPayloads(fmt) :
            par' = [par EXCEPT !.pc = "dc", !.kind = kind, !.fmt = fmt, !.orig = p,
                               !.src = p, !.cur = <<>>, !.step = 1, !.log = <<>>,
                               !.res = "None", !.fresh = ~bus.used]
    /\ UNCHANGED <<host_le, rd, spi, i2c, bus>>

\* self.dc.set_low() / set_high(), then the match on the format
Par_set_dc ==
    /\ par.pc = "dc"
    /\ \E ok \in BOOLEAN :
         LET op == ParDcOp(par.kind) IN
         par' = IF ~ok
                THEN [par EXCEPT !.pc = "ret", !.res = "DCError",
                                 !.log = ParLog(ParPin(op, FALSE))]
                ELSE IF par.fmt \notin ParFormats(par.kind)
                THEN [par EXCEPT !.pc = "ret", !.res = "DataFormatNotImplemented",
                                 !.dc = LevelOf(op), !.log = ParLog(ParPin(op, TRUE))]
                ELSE IF par.src = <<>>
                THEN [par EXCEPT !.pc = "ret", !.res = "Ok",
                                 !.dc = LevelOf(op), !.log = ParLog(ParPin(op, TRUE))]
                ELSE [par EXCEPT !.pc = "byte", !.step = 1,
                                 !.cur = ParItemBytes(par.fmt, Head(par.src)),
                                 !.src = Tail(par.src),
                                 !.dc = LevelOf(op), !.log = ParLog(ParPin(op, TRUE))]
    /\ UNCHANGED <<host_le, rd, spi, i2c, bus>>

\* the adapter after one statement of the loop body has succeeded: the next
\* statement, the next byte, the next item, or Ok
ParAdvance(p) ==
    IF p.step < Len(ParLoopBody)
    THEN [p EXCEPT !.step = p.step + 1]
    ELSE IF Len(p.cur) > 1
    THEN [p EXCEPT !.step = 1, !.cur = Tail(p.cur)]
    ELSE IF p.src # <<>>
    THEN [p EXCEPT !.step = 1, !.cur = ParItemBytes(p.fmt, Head(p.src)),
                   !.src = Tail(p.src)]
    ELSE [p EXCEPT !.pc = "ret", !.res = "Ok", !.cur = <<>>]

\* self.wr.set_low().map_err(|_| BusWriteError)?
Par_wr_set_low ==
    /\ par.pc = "byte"
    /\ ParLoopBody[par.step] = "wr_low"
    /\ \E ok \in BOOLEAN :
         par' = IF ok
                THEN ParAdvance([par EXCEPT !.wr = "L",
                                            !.log = ParLog(ParPin("wr_low", TRUE))])
                ELSE [par EXCEPT !.pc = "ret", !.res = "BusWriteError",
                                 !.log = ParLog(ParPin("wr_low", FALSE))]
    /\ UNCHANGED <<host_le, rd, spi, i2c, bus>>

\* the data pins whose operation may fail under the adapter: the first, one in
\* the middle, or none
ParFailAts == {0, 5, BusWidth}

\* self.set_value(b)?
Par_set_value ==
    /\ par.pc = "byte"
    /\ ParLoopBody[par.step] = "set_value"
    /\ \E failAt \in ParFailAts :
         LET b == set_value(bus, Head(par.cur), failAt) IN
         /\ bus' = b
         /\ par' = IF b.res = "Ok"
                   THEN ParAdvance([par EXCEPT
                            !.log = ParLog(ParBus(Head(par.cur), b.ops, TRUE))])
                   ELSE [par EXCEPT !.pc = "ret", !.res = b.res,
                            !.log = ParLog(ParBus(Head(par.cur), b.ops, FALSE))]
    /\ UNCHANGED <<host_le, rd, spi, i2c>>

\* self.wr.set_high().map_err(|_| BusWriteError)
Par_wr_set_high ==
    /\ par.pc = "byte"
    /\ ParLoopBody[par.step] = "wr_high"
    /\ \E ok \in BOOLEAN :
         par' = IF ok
                THEN ParAdvance([par EXCEPT !.wr = "H",
                                            !.log = ParLog(ParPin("wr_high", TRUE))])
                ELSE [par EXCEPT !.pc = "ret", !.res = "BusWriteError",
                                 !.log = ParLog(ParPin("wr_high", FALSE))]
    /\ UNCHANGED <<host_le, rd, spi, i2c, bus>>

\* the call has returned its result; the driver may call again (the record of
\* the bus's latest set_value is dropped with the call's log)
ParReturn ==
    /\ par.pc = "ret"
    /\ par' = ParIdle(par.dc, par.wr)
    /\ bus' = [bus EXCEPT !.prev = WordMax, !.arg = 0, !.ops = <<>>, !.res = "None"]
    /\ UNCHANGED <<host_le, rd, spi, i2c>>

\* PGPIO8BitInterface::release: (self.bus, self.dc, self.wr)
ParRelease ==
    /\ par.pc = "idle"
    /\ bus.state = "ready"
    /\ par' = [par EXCEPT !.pc = "released"]
    /\ UNCHANGED <<host_le, rd, spi, i2c, bus>>

\* Generic8BitBus::release: self.pins, for a bus no adapter holds
BusRelease ==
    /\ bus.state = "ready"
    /\ par.pc \in {"idle", "released"}
    /\ bus' = [bus EXCEPT !.state = "released"]
    /\ UNCHANGED <<host_le, rd, spi, i2c, par>>

\* the values presented to a bus used on its own
BusWords == {0, 255, 1, 128, 85, 170, 15, 60, 195}

\* a caller presents a value to the bus
BusSetValue ==
    /\ bus.state = "ready"
    /\ bus.calls < MaxBusCalls
    /\ \E value \in BusWords, failAt \in FailAts :
         bus' = [set_value(bus, value, failAt) EXCEPT !.calls = bus.calls + 1]
    /\ UNCHANGED <<host_le, rd, spi, i2c, par>>

(***************************************************************************)
(* src/lib.rs: ReadWriteInterface::read; v2.rs: ReadInterface::read        *)
(***************************************************************************)
\* the items a read_stream implementation streams
ReadItems == {1, 2}

\* no call of read in progress
RdIdle ==
    [pc |-> "idle", orig |-> <<>>, buf |-> <<>>, n |-> 0, given |-> <<>>,
     rets |-> <<>>, res |-> "None"]

\* the read interface of a system that does not use it
RdParked == RdIdle

\* a faulty variant of the bound check: one item too late
BufFullLate(n, len) == n > len

\* if n == buf.len() { return false; }
BufFull(n, len) == n = len

\* buf[n] = b (0-based): the index check and the store
IndexStore(buf, n, b) ==
    IF n >= Len(buf)
    THEN [panic |-> TRUE, buf |-> buf]
    ELSE [panic |-> FALSE, buf |-> [buf EXCEPT ![n + 1] = b]]

\* the callback read hands to read_stream, invoked with b (given and rets
\* record the items it was invoked with and what it returned)
ReadClosure(r, b) ==
    IF BufFull(r.n, Len(r.buf))
    THEN [r EXCEPT !.given = Append(@, b), !.rets = Append(@, FALSE)]
    ELSE LET st == IndexStore(r.buf, r.n, b) IN
         IF st.panic
         THEN [r EXCEPT !.given = Append(@, b), !.pc = "ret", !.res = "Panic"]
         ELSE [r EXCEPT !.buf = st.buf, !.n = r.n + 1,
                        !.given = Append(@, b), !.rets = Append(@, TRUE)]

\* read(buf) is entered: let mut n = 0; self.read_stream(&mut |b| ..)
ReadCall ==
    /\ rd.pc = "idle"
    /\ \E len \in 0..MaxBufLen :
         rd' = [RdIdle EXCEPT !.pc = "stream", !.orig = Zeros(len), !.buf = Zeros(len)]
    /\ UNCHANGED <<host_le, spi, i2c, bus, par>>

\* the implementation of read_stream invokes the callback with its next item
\* (whether it goes on after a false is left to the implementation)
ReadStreamItem ==
    /\ rd.pc = "stream"
    /\ Len(rd.given) < MaxStreamLen
    /\ \E b \in ReadItems : rd' = ReadClosure(rd, b)
    /\ UNCHANGED <<host_le, spi, i2c, bus, par>>

\* read_stream returns, and read returns its result
ReadStreamReturn ==
    /\ rd.pc = "stream"
    /\ \E res \in {"Ok", "BusReadError"} : rd' = [rd EXCEPT !.pc = "ret", !.res = res]
    /\ UNCHANGED <<host_le, spi, i2c, bus, par>>

\* the caller takes the result and the buffer
ReadReturn ==
    /\ rd.pc = "ret"
    /\ rd.res # "Panic"
    /\ rd' = RdIdle
    /\ UNCHANGED <<host_le, spi, i2c, bus, par>>

(***************************************************************************)
(* spi/src/lib.rs: SPIInterface / BorrowedSPIInterface, SPIInterfaceNoCS   *)
(* spi_async/src/lib.rs: SPIInterface                                      *)
(***************************************************************************)
\* the adapters: the synchronous one with chip select, the synchronous one
\* without, and the asynchronous one with chip select
SyncCS == "SPIInterface"

SyncNoCS == "SPIInterfaceNoCS"

AsyncCS == "spi_async::SPIInterface"

\* a faulty variant of the mode pin operation: polarity inverted
SpiDcOpInverted(kind) == IF kind = "commands" THEN "dc_high" ELSE "dc_low"

\* send_commands drives DC low, send_data drives DC high
SpiDcOp(kind) == IF kind = "commands" THEN "dc_low" ELSE "dc_high"

SpiLog(entry) == Append(spi.log, entry)

\* a driver calls send_commands or send_data with a payload
SpiCall ==
    /\ spi.pc = "idle"
    /\ \E kind \in Kinds, fmt \in DataFormat, seed \in Seeds :
         \E len \in 0..MaxLenOf(fmt) :
            LET p == Payload(fmt, len, seed) IN
            spi' = [spi EXCEPT !.pc = IF spi.adapter = SyncNoCS THEN "dc" ELSE "cs_low",
                               !.kind = kind, !.fmt = fmt,
                               !.orig = p,
                               !.slice = IF fmt \in SliceFormats THEN p ELSE <<>>,
                               !.iter = IF fmt \in IterFormats THEN p ELSE <<>>,
                               !.buf = <<>>, !.i = 0, !.log = <<>>,
                               !.inner = "None", !.res = "None"]
    /\ UNCHANGED <<host_le, rd, i2c, bus, par>>

\* with_cs: self.cs.set_low().map_err(|_| CSError)?
with_cs_set_low ==
    /\ spi.pc = "cs_low"
    /\ \E ok \in BOOLEAN :
         spi' = IF ok
                THEN [spi EXCEPT !.pc = "dc", !.cs = "L",
                                 !.log = SpiLog(PinOp("cs_low", TRUE))]
                ELSE [spi EXCEPT !.pc = "ret", !.res = "CSError",
                                 !.log = SpiLog(PinOp("cs_low", FALSE))]
    /\ UNCHANGED <<host_le, rd, i2c, bus, par>>

\* a faulty variant of the end of the payload step: an error returns at once
\* from every adapter, past the set_high of with_cs
AfterPayloadEarlyReturn(s, result) ==
    IF result = "Ok" /\ s.adapter # SyncNoCS
    THEN [s EXCEPT !.pc = "cs_high", !.inner = result]
    ELSE [s EXCEPT !.pc = "ret", !.inner = result, !.res = result]

\* the mode pin and payload step has ended with a result: with_cs keeps it
\* and goes on to set_high, the adapter without chip select returns it, the
\* asynchronous adapter returns an error at once (`.await?`) and goes on to
\* cs_high otherwise
AfterPayload(s, result) ==
    CASE s.adapter = SyncCS -> [s EXCEPT !.pc = "cs_high", !.inner = result]
      [] s.adapter = SyncNoCS -> [s EXCEPT !.pc = "ret", !.inner = result, !.res = result]
      [] s.adapter = AsyncCS ->
            IF result = "Ok"
            THEN [s EXCEPT !.pc = "cs_high", !.inner = result]
            ELSE [s EXCEPT !.pc = "ret", !.inner = result, !.res = result]

\* a faulty variant of the failed mode pin operation: the error is dropped and
\* the payload is sent
DcFailureIgnored(s, op) ==
    [s EXCEPT !.pc = "send", !.log = Append(s.log, PinOp(op, FALSE))]

\* self.dc.set_low().map_err(|_| DCError)?: the error ends the payload step
DcFailed(s, op) ==
    AfterPayload([s EXCEPT !.log = Append(s.log, PinOp(op, FALSE))], "DCError")

\* send_commands / send_data of the NoCS adapter: the mode pin
NoCS_set_dc ==
    /\ spi.pc = "dc"
    /\ \E ok \in BOOLEAN :
         LET op == SpiDcOp(spi.kind) IN
         spi' = IF ok
                THEN [spi EXCEPT !.pc = "send", !.dc = LevelOf(op),
                                 !.log = SpiLog(PinOp(op, TRUE))]
                ELSE DcFailed(spi, op)
    /\ UNCHANGED <<host_le, rd, i2c, bus, par>>

\* send_u8, the slice arms: convert in place, one spi.write
send_u8_slice ==
    /\ spi.pc = "send"
    /\ spi.fmt \in SliceFormats
    /\ \E ok \in BOOLEAN :
         spi' = AfterPayload(
                    [spi EXCEPT !.slice = SpiConverted(spi.fmt, spi.slice),
                                !.log = SpiLog(WriteOp(SpiSliceBytes(spi.fmt, spi.slice),
                                                       ok, spi.dc))],
                    IF ok THEN "Ok" ELSE "BusWriteError")
    /\ UNCHANGED <<host_le, rd, i2c, bus, par>>

\* send_u8, the iterator arms: let mut buf = [0; N]; let mut i = 0
send_u8_iter_begin ==
    /\ spi.pc = "send"
    /\ spi.fmt \in IterFormats
    /\ spi' = [spi EXCEPT !.pc = "loop", !.buf = Zeros(SpiBufLen(spi.fmt)), !.i = 0]
    /\ UNCHANGED <<host_le, rd, i2c, bus, par>>

\* a faulty variant of the failed write of a full buffer: the error is dropped
\* and the loop goes on
FlushFailureIgnored(s) == [s EXCEPT !.i = 0]

\* spi.write(&buf).map_err(|_| BusWriteError)?: the error ends send_u8
FlushFailed(s) == AfterPayload(s, "BusWriteError")

\* send_u8, the iterator arms: the loop up to a full buffer and its write
send_u8_iter_flush ==
    /\ spi.pc = "loop"
    /\ LET r == SpiFill(spi.fmt, spi.buf, spi.i, spi.iter) IN
       /\ r.full
       /\ \E ok \in BOOLEAN :
            spi' = IF ok
                   THEN [spi EXCEPT !.buf = r.buf, !.i = 0, !.iter = r.iter,
                                    !.log = SpiLog(WriteOp(SpiBufBytes(spi.fmt, r.buf),
                                                           TRUE, spi.dc))]
                   ELSE FlushFailed(
                            [spi EXCEPT !.buf = r.buf, !.i = r.i, !.iter = r.iter,
                                        !.log = SpiLog(WriteOp(SpiBufBytes(spi.fmt, r.buf),
                                                               FALSE, spi.dc))])
    /\ UNCHANGED <<host_le, rd, i2c, bus, par>>

\* a faulty variant of the trailing test: the rest of the buffer is never written
SpiTailPendingNever(i) == FALSE

\* if i > 0: the buffer holds items not yet written
SpiTailPending(i) == i > 0

\* send_u8, the iterator arms: the iterator ends; if i > 0 the trailing write
send_u8_iter_tail ==
    /\ spi.pc = "loop"
    /\ LET r == SpiFill(spi.fmt, spi.buf, spi.i, spi.iter) IN
       /\ ~r.full
       /\ IF SpiTailPending(r.i)
          THEN \E ok \in BOOLEAN :
                 spi' = AfterPayload(
                            [spi EXCEPT !.buf = r.buf, !.i = r.i, !.iter = r.iter,
                                        !.log = SpiLog(WriteOp(
                                            SpiBufBytes(spi.fmt, SpiTail(r.buf, r.i)),
                                            ok, spi.dc))],
                            IF ok THEN "Ok" ELSE "BusWriteError")
          ELSE spi' = AfterPayload(
                          [spi EXCEPT !.buf = r.buf, !.i = r.i, !.iter = r.iter],
                          "Ok")
    /\ UNCHANGED <<host_le, rd, i2c, bus, par>>

\* a faulty variant of the end of with_cs: a failed set_high is reported when
\* the closure succeeded
WithCsResultChecked(result, high_ok) ==
    IF result = "Ok" /\ ~high_ok THEN "CSError" ELSE result

\* self.cs.set_high().ok(); result -- the outcome of set_high is discarded
WithCsResult(result, high_ok) == result

\* with_cs: self.cs.set_high().ok(); result
with_cs_set_high ==
    /\ spi.pc = "cs_high"
    /\ spi.adapter = SyncCS
    /\ \E ok \in BOOLEAN :
         spi' = [spi EXCEPT !.pc = "ret", !.res = WithCsResult(spi.inner, ok),
                            !.cs = IF ok THEN "H" ELSE spi.cs,
                            !.log = SpiLog(PinOp("cs_high", ok))]
    /\ UNCHANGED <<host_le, rd, i2c, bus, par>>

\* the asynchronous adapter: self.cs_high()?; Ok(())
async_cs_high ==
    /\ spi.pc = "cs_high"
    /\ spi.adapter = AsyncCS
    /\ \E ok \in BOOLEAN :
         spi' = [spi EXCEPT !.pc = "ret", !.res = IF ok THEN "Ok" ELSE "CSError",
                            !.cs = IF ok THEN "H" ELSE spi.cs,
                            !.log = SpiLog(PinOp("cs_high", ok))]
    /\ UNCHANGED <<host_le, rd, i2c, bus, par>>

\* a faulty variant of the dropped future: chip select is driven high as the
\* future is dropped
DroppedWithDeassert(s) ==
    [s EXCEPT !.pc = "ret", !.res = "Cancelled", !.cs = "H",
              !.log = Append(s.log, PinOp("cs_high", TRUE))]

\* the future of a call is dropped: none of its remaining code runs
Dropped(s) == [s EXCEPT !.pc = "ret", !.res = "Cancelled"]

\* the asynchronous adapter: the caller drops the future while it is suspended
\* at spi.write(..).await; a U16LE / U16BE slice has been converted by then
async_cancel ==
    /\ spi.adapter = AsyncCS
    /\ spi.pc \in {"send", "loop"}
    /\ spi.pc = "loop" =>
          LET r == SpiFill(spi.fmt, spi.buf, spi.i, spi.iter) IN
          r.full \/ SpiTailPending(r.i)
    /\ spi' = Dropped([spi EXCEPT !.slice = SpiConverted(spi.fmt, spi.slice)])
    /\ UNCHANGED <<host_le, rd, i2c, bus, par>>

\* the adapter between two calls: only the pins keep what the call left
\* (prev records which method the previous call was)
SpiIdle(cs, dc) ==
    [pc |-> "idle", kind |-> "commands", fmt |-> "U8", orig |-> <<>>,
     slice |-> <<>>, iter |-> <<>>, buf |-> <<>>, i |-> 0, log |-> <<>>,
     inner |-> "None", res |-> "None", cs |-> cs, dc |-> dc, adapter |-> SyncCS,
     prev |-> "none"]

\* the call has returned its result; the driver may call again
SpiReturn ==
    /\ spi.pc = "ret"
    /\ spi' = [SpiIdle(spi.cs, spi.dc) EXCEPT !.adapter = spi.adapter,
                                              !.prev = spi.kind]
    /\ UNCHANGED <<host_le, rd, i2c, bus, par>>

\* a faulty variant of release: chip select is driven high on the way out
SpiReleasedDeasserted(s) == [s EXCEPT !.pc = "released", !.cs = "H"]

\* release: (self.spi, self.dc, self.cs) / (self.spi, self.dc)
SpiReleased(s) == [s EXCEPT !.pc = "released"]

\* SPIInterface::release / SPIInterfaceNoCS::release
SpiRelease ==
    /\ spi.pc = "idle"
    /\ spi' = SpiReleased(spi)
    /\ UNCHANGED <<host_le, rd, i2c, bus, par>>

\* SPIInterface::new: the pins are as the caller left them
SpiInit ==
    /\ host_le \in BOOLEAN
    /\ rd = RdParked
    /\ i2c = I2cParked
    /\ bus = BusUnbuilt
    /\ par = ParParked
    /\ \E cs \in {"L", "H"}, dc \in {"L", "H"} : spi = SpiIdle(cs, dc)

SpiNext ==
    \/ SpiCall
    \/ with_cs_set_low
    \/ NoCS_set_dc
    \/ send_u8_slice
    \/ send_u8_iter_begin
    \/ send_u8_iter_flush
    \/ send_u8_iter_tail
    \/ with_cs_set_high
    \/ SpiReturn
    \/ SpiRelease

SpecSPI == SpiInit /\ [][SpiNext]_vars

\* SPIInterface::new or SPIInterfaceNoCS::new (no chip select pin)
SpiSyncInit ==
    /\ host_le \in BOOLEAN
    /\ rd = RdParked
    /\ i2c = I2cParked
    /\ bus = BusUnbuilt
    /\ par = ParParked
    /\ \/ \E cs \in {"L", "H"}, dc \in {"L", "H"} : spi = SpiIdle(cs, dc)
       \/ \E dc \in {"L", "H"} : spi = [SpiIdle("-", dc) EXCEPT !.adapter = SyncNoCS]

SpecSPISync == SpiSyncInit /\ [][SpiNext]_vars

\* spi_async SPIInterface::new
SpiAsyncInit ==
    /\ host_le \in BOOLEAN
    /\ rd = RdParked
    /\ i2c = I2cParked
    /\ bus = BusUnbuilt
    /\ par = ParParked
    /\ \E cs \in {"L", "H"}, dc \in {"L", "H"} :
         spi = [SpiIdle(cs, dc) EXCEPT !.adapter = AsyncCS]

SpiAsyncNext ==
    \/ SpiCall
    \/ with_cs_set_low
    \/ NoCS_set_dc
    \/ send_u8_slice
    \/ send_u8_iter_begin
    \/ send_u8_iter_flush
    \/ send_u8_iter_tail
    \/ async_cs_high
    \/ async_cancel
    \/ SpiReturn
    \/ SpiRelease

SpecSPIAsync == SpiAsyncInit /\ [][SpiAsyncNext]_vars

\* the SPI adapter of a system that does not use it
SpiParked == SpiIdle("H", "H")

\* I2cInterface::new(i2c, addr, data_byte)
I2cInit ==
    /\ host_le \in BOOLEAN
    /\ rd = RdParked
    /\ spi = SpiParked
    /\ bus = BusUnbuilt
    /\ par = ParParked
    /\ \E addr \in I2cAddrs, data_byte \in DataBytes : i2c = I2cIdle(addr, data_byte)

I2cNext ==
    \/ I2cCall
    \/ I2c_send_commands_u8
    \/ I2c_not_implemented
    \/ I2c_send_data_u8_begin
    \/ I2c_send_data_u8_chunk
    \/ I2c_send_data_iter_begin
    \/ I2c_send_data_iter_flush
    \/ I2c_send_data_iter_tail
    \/ I2cReturn
    \/ I2cRelease

SpecI2C == I2cInit /\ [][I2cNext]_vars

\* a system with one adapter over a byte sink: a synchronous SPI adapter or
\* the I2C adapter; only the adapter that was constructed takes calls
WritersInit ==
    \/ SpiSyncInit
    \/ I2cInit

WritersNext ==
    \/ i2c = I2cParked /\ SpiNext
    \/ spi = SpiParked /\ I2cNext

SpecWriters == WritersInit /\ [][WritersNext]_vars

\* the pins handed to Generic8BitBus::new
BusInit ==
    /\ host_le = TRUE
    /\ rd = RdParked
    /\ spi = SpiParked
    /\ i2c = I2cParked
    /\ par = ParParked
    /\ bus = BusUnbuilt

BusNext ==
    \/ BusNew
    \/ BusSetValue
    \/ BusRelease

SpecBus == BusInit /\ [][BusNext]_vars

\* PGPIO8BitInterface::new(bus, dc, wr) over a Generic8BitBus still to be built
ParInit ==
    /\ host_le \in BOOLEAN
    /\ rd = RdParked
    /\ spi = SpiParked
    /\ i2c = I2cParked
    /\ bus = BusUnbuilt
    /\ \E dc \in {"L", "H"}, wr \in {"L", "H"} : par = ParIdle(dc, wr)

ParNext ==
    \/ BusNew
    \/ ParCall
    \/ Par_set_dc
    \/ Par_wr_set_low
    \/ Par_set_value
    \/ Par_wr_set_high
    \/ ParReturn
    \/ ParRelease
    \/ BusRelease

SpecPar == ParInit /\ [][ParNext]_vars

\* a system with one adapter of any synchronous kind; only the adapter that
\* was constructed takes calls
AdaptersInit ==
    \/ SpiSyncInit
    \/ I2cInit
    \/ ParInit

AdaptersNext ==
    \/ i2c = I2cParked /\ par = ParParked /\ bus = BusUnbuilt /\ SpiNext
    \/ spi = SpiParked /\ par = ParParked /\ bus = BusUnbuilt /\ I2cNext
    \/ spi = SpiParked /\ i2c = I2cParked /\ ParNext

SpecAdapters == AdaptersInit /\ [][AdaptersNext]_vars

\* a read interface on its own
ReadInit ==
    /\ host_le = TRUE
    /\ spi = SpiParked
    /\ i2c = I2cParked
    /\ par = ParParked
    /\ bus = BusUnbuilt
    /\ rd = RdIdle

ReadNext ==
    \/ ReadCall
    \/ ReadStreamItem
    \/ ReadStreamReturn
    \/ ReadReturn

SpecRead == ReadInit /\ [][ReadNext]_vars

(***************************************************************************)
(* Properties of the synchronous SPI adapter                               *)
(***************************************************************************)
CeilDiv(a, b) == (a + b - 1) \div b

RECURSIVE Concat(_)
Concat(ss) == IF ss = <<>> THEN <<>> ELSE Head(ss) \o Concat(Tail(ss))

\* the byte slices of the write calls of a log, in order
RECURSIVE WritesOf(_)
WritesOf(log) ==
    IF log = <<>> THEN <<>>
    ELSE IF Head(log).op = "write"
         THEN <<Head(log).data>> \o WritesOf(Tail(log))
         ELSE WritesOf(Tail(log))

SpiReturnedOk == spi.pc = "ret" /\ spi.res = "Ok"

\* C1: a successful send_commands of the SPI adapter with chip select performs
\* CS set_low, then DC set_low, then all its SPI writes, then CS set_high; at no
\* point of the call has a write happened before DC was driven low or after
\* CS was driven high.
C1_CommandFraming ==
    spi.kind = "commands" =>
        /\ \A k \in 1..Len(spi.log) :
             spi.log[k].op = "write" =>
                /\ \E j \in 1..(k - 1) : spi.log[j].op = "dc_low" /\ spi.log[j].ok
                /\ \A j \in 1..(k - 1) : spi.log[j].op # "cs_high"
        /\ SpiReturnedOk =>
             LET n == Len(spi.log) IN
             /\ n >= 3
             /\ spi.log[1] = PinOp("cs_low", TRUE)
             /\ spi.log[2] = PinOp("dc_low", TRUE)
             /\ \A k \in 3..(n - 1) : spi.log[k].op = "write" /\ spi.log[k].ok
             /\ spi.log[n].op = "cs_high"

\* a successful send_commands that issued several writes has returned
C1_Witness ==
    /\ SpiReturnedOk
    /\ spi.kind = "commands"
    /\ Len(WritesOf(spi.log)) >= 2

\* C2: a successful call with U8Iter yielding L bytes issues ceil(L/32) SPI
\* writes, each but the last of exactly 32 bytes, the last of 1..32 bytes, and
\* the written slices concatenated are the iterator's bytes in order.
C2_U8IterChunks ==
    (SpiReturnedOk /\ spi.fmt = "U8Iter") =>
        LET w == WritesOf(spi.log)
            L == Len(spi.orig)
        IN  /\ Len(w) = CeilDiv(L, 32)
            /\ \A k \in 1..(Len(w) - 1) : Len(w[k]) = 32
            /\ Len(w) > 0 => Len(w[Len(w)]) \in 1..32
            /\ Concat(w) = spi.orig

\* a U8Iter call with two full chunks and a partial one has returned Ok
C2_Witness ==
    /\ SpiReturnedOk
    /\ spi.fmt = "U8Iter"
    /\ Len(spi.orig) > 64
    /\ Len(WritesOf(spi.log)) = 3

(***************************************************************************)
(* Properties of the I2C adapter                                           *)
(***************************************************************************)
I2cReturned == i2c.pc = "ret"

\* the payload parts (all but the first byte) of the writes of a log
I2cPayloads(log) == [k \in 1..Len(log) |-> Tail(log[k].data)]

\* the k-th group of at most 16 bytes of a payload
Group16(p, k) == SubSeq(p, 16 * (k - 1) + 1, Min(16 * k, Len(p)))

\* C3: send_data with U8Iter yielding L bytes returns with ceil(L/16) I2C
\* writes, each the data mode byte followed only by bytes of the iterator, the
\* payload parts concatenated being the iterator's bytes in order, for every L.
C3_U8IterChunks ==
    (I2cReturned /\ i2c.kind = "data" /\ i2c.fmt = "U8Iter"
                 /\ i2c.res \notin {"BusWriteError"}) =>
        /\ i2c.res = "Ok"
        /\ Len(i2c.log) = CeilDiv(Len(i2c.orig), 16)
        /\ \A k \in 1..Len(i2c.log) : Head(i2c.log[k].data) = i2c.data_byte
        /\ Concat(I2cPayloads(i2c.log)) = i2c.orig

\* C4: send_data with a U8 slice of L >= 1 bytes and data byte d issues
\* ceil(L/16) writes to the configured address, the k-th being d followed by
\* the k-th group of at most 16 payload bytes; d = 0x40 and [0x11, 0x22] give
\* the single write [0x40, 0x11, 0x22].
C4_U8SliceChunks ==
    (I2cReturned /\ i2c.kind = "data" /\ i2c.fmt = "U8" /\ i2c.res = "Ok"
                 /\ Len(i2c.orig) >= 1) =>
        /\ Len(i2c.log) = CeilDiv(Len(i2c.orig), 16)
        /\ \A k \in 1..Len(i2c.log) :
             /\ i2c.log[k].addr = i2c.addr
             /\ i2c.log[k].data = <<i2c.data_byte>> \o Group16(i2c.orig, k)
             /\ Len(i2c.log[k].data) <= 17
        /\ Concat(I2cPayloads(i2c.log)) = i2c.orig
        /\ (i2c.data_byte = 64 /\ i2c.orig = <<17, 34>>) =>
             i2c.log = <<I2cWrite(i2c.addr, <<64, 17, 34>>, TRUE)>>

\* a U8 slice of more than 32 bytes has been sent in three writes
C4_Witness ==
    /\ I2cReturned
    /\ i2c.kind = "data" /\ i2c.fmt = "U8" /\ i2c.res = "Ok"
    /\ Len(i2c.log) = 3

\* C5: send_data with an empty U8 slice or an empty U8Iter performs no I2C
\* write and returns Ok.
C5_EmptyPayloadNoWrite ==
    (i2c.pc # "idle" /\ i2c.kind = "data" /\ i2c.fmt \in {"U8", "U8Iter"}
                     /\ i2c.orig = <<>>) =>
        /\ i2c.log = <<>>
        /\ I2cReturned => i2c.res = "Ok"

\* send_data with an iterator that yields nothing has returned
C5_Witness ==
    /\ I2cReturned
    /\ i2c.kind = "data" /\ i2c.fmt = "U8Iter" /\ i2c.orig = <<>>
    /\ i2c.res = "Ok"

\* C6: send_commands with a U8 slice of n <= 7 bytes issues exactly one I2C
\* write to the configured address: 0x00 followed by the n command bytes.
C6_CommandsOneWrite ==
    (I2cReturned /\ i2c.kind = "commands" /\ i2c.fmt = "U8" /\ Len(i2c.orig) <= 7) =>
        /\ i2c.res \in {"Ok", "BusWriteError"}
        /\ Len(i2c.log) = 1
        /\ i2c.log[1].addr = i2c.addr
        /\ i2c.log[1].data = <<0>> \o i2c.orig
        /\ Len(i2c.log[1].data) = Len(i2c.orig) + 1
        /\ Len(i2c.log[1].data) <= 8

\* send_commands with 7 command bytes has returned Ok
C6_Witness ==
    /\ I2cReturned
    /\ i2c.kind = "commands" /\ i2c.fmt = "U8" /\ Len(i2c.orig) = 7
    /\ i2c.res = "Ok"

I2cUnsupported ==
    \/ i2c.kind = "commands" /\ i2c.fmt # "U8"
    \/ i2c.kind = "data" /\ i2c.fmt \notin {"U8", "U8Iter"}

\* C7: send_commands with any format but U8, and send_data with any format
\* but U8 and U8Iter, return DataFormatNotImplemented and perform no I2C write.
C7_UnsupportedFormat ==
    (i2c.pc # "idle" /\ I2cUnsupported) =>
        /\ i2c.log = <<>>
        /\ I2cReturned => i2c.res = "DataFormatNotImplemented"

\* send_commands with a non-empty U8Iter has been rejected
C7_Witness ==
    /\ I2cReturned
    /\ i2c.kind = "commands" /\ i2c.fmt = "U8Iter" /\ i2c.orig # <<>>
    /\ i2c.res = "DataFormatNotImplemented"

(***************************************************************************)
(* Properties of the 8-bit parallel adapter and of Generic8BitBus          *)
(***************************************************************************)
ParReturnedOk == par.pc = "ret" /\ par.res = "Ok"

\* the log of a call after its mode pin operation
ParBody(log) == IF log = <<>> THEN <<>> ELSE Tail(log)

\* the bytes presented to the bus in a log, in order
RECURSIVE ParEmitted(_)
ParEmitted(log) ==
    IF log = <<>> THEN <<>>
    ELSE IF Head(log).op = "set_value"
         THEN <<Head(log).value>> \o ParEmitted(Tail(log))
         ELSE ParEmitted(Tail(log))

\* the WR strobes of a log: a successful set_low followed, after the value,
\* by a successful set_high
ParStrobes(log) ==
    Cardinality({k \in 3..Len(log) :
        /\ log[k] = ParPin("wr_high", TRUE)
        /\ log[k - 2] = ParPin("wr_low", TRUE)})

\* C8: every byte goes through WR set_low, bus set_value(byte), WR set_high in
\* that order and bytes are emitted in payload order; a successful call has as
\* many WR strobes as bytes emitted and, for a non-empty payload, leaves WR
\* high.
C8_StrobePerByte ==
    par.pc \in {"byte", "ret"} =>
        LET body == ParBody(par.log)
            n == Len(body)
            bytes == ParEmitted(par.log)
        IN  /\ \A k \in 1..n :
                 /\ (k % 3 = 1) => body[k].op = "wr_low"
                 /\ (k % 3 = 2) => body[k].op = "set_value"
                 /\ (k % 3 = 0) => body[k].op = "wr_high"
                 /\ k < n => body[k].ok
            /\ par.fmt \in ByteFormats => bytes = SubSeq(par.orig, 1, Len(bytes))
            /\ ParReturnedOk =>
                 /\ n = 3 * Len(bytes)
                 /\ ParStrobes(par.log) = Len(bytes)
                 /\ Len(bytes) = Len(par.orig) * (IF par.fmt \in ByteFormats THEN 1 ELSE 2)
                 /\ par.orig # <<>> => par.wr = "H"

\* a call with a byte payload of three bytes has returned Ok
C8_Witness ==
    /\ ParReturnedOk
    /\ par.fmt = "U8"
    /\ Len(par.orig) = 3
    /\ ParStrobes(par.log) = 3

ParIsDc(e) == e.op \in {"dc_low", "dc_high"}

\* C9: the mode pin is driven exactly once per call, low for send_commands
\* and high for send_data, before the first WR or data line operation, and
\* never inside the per-byte loop.
C9_ModePinOnce ==
    par.pc \in {"byte", "ret"} =>
        /\ Len(par.log) >= 1
        /\ par.log[1].op = (IF par.kind = "commands" THEN "dc_low" ELSE "dc_high")
        /\ \A k \in 2..Len(par.log) : ~ParIsDc(par.log[k])
        /\ par.log[1].ok => par.dc = (IF par.kind = "commands" THEN "L" ELSE "H")

\* a send_data call that emitted several bytes has returned Ok
C9_Witness ==
    /\ ParReturnedOk
    /\ par.kind = "data"
    /\ Len(ParEmitted(par.log)) >= 2

\* the bit positions where two values differ
DiffBits(X, Y) == {x \in 0..7 : (X \div Pow2(x)) % 2 # (Y \div Pow2(x)) % 2}

\* C10: a set_value(Y) that succeeds when the cached value is X performs
\* exactly one pin operation for each bit position where X and Y differ,
\* set_high if Y's bit is 1 and set_low otherwise, on the pin of that position,
\* and none on any other pin; set_value(X) after set_value(X) performs none.
C10_DifferentialUpdate ==
    (bus.state = "ready" /\ bus.res = "Ok") =>
        LET X == bus.prev
            Y == bus.arg
            D == DiffBits(X, Y)
        IN  /\ Len(bus.ops) = Cardinality(D)
            /\ \A x \in D :
                 \E k \in 1..Len(bus.ops) :
                    /\ bus.ops[k].pin = x
                    /\ bus.ops[k].ok
                    /\ bus.ops[k].level = (IF (Y \div Pow2(x)) % 2 = 1 THEN "H" ELSE "L")
            /\ \A k \in 1..Len(bus.ops) : bus.ops[k].pin \in D
            /\ X = Y => bus.ops = <<>>
            /\ bus.last = Y

\* a set_value has driven some lines high and some low and left others alone
C10_Witness ==
    /\ bus.state = "ready" /\ bus.res = "Ok" /\ bus.calls >= 2
    /\ Len(bus.ops) \in 1..7
    /\ \E j, k \in 1..Len(bus.ops) : bus.ops[j].level = "H" /\ bus.ops[k].level = "L"

\* the level bit x of a value stands for on its data line
LevelOfBit(v, x) == IF (v \div Pow2(x)) % 2 = 1 THEN "H" ELSE "L"

\* C11: after a set_value(v) that returned Ok (the one of new included) the
\* cached value is v and, if no pin operation has failed so far, the level last
\* driven on every data line i is bit i of v.
C11_CacheMatchesLines ==
    (bus.state = "ready" /\ bus.res = "Ok") =>
        /\ bus.last = bus.arg
        /\ ~bus.faulted =>
             \A x \in 0..(BusWidth - 1) : bus.pins[x + 1] = LevelOfBit(bus.arg, x)

\* two set_value calls after new have succeeded, the last one leaving lines
\* at both levels
C11_Witness ==
    /\ bus.state = "ready" /\ bus.res = "Ok" /\ ~bus.faulted
    /\ bus.calls >= 2
    /\ bus.arg \notin {0, WordMax}
    /\ bus.ops # <<>>

\* the set_value entries of a log, in order
RECURSIVE ParValues(_)
ParValues(log) ==
    IF log = <<>> THEN <<>>
    ELSE IF Head(log).op = "set_value"
         THEN <<Head(log)>> \o ParValues(Tail(log))
         ELSE ParValues(Tail(log))

\* the number of data line operations of each set_value of a log
LineWrites(log) == [k \in 1..Len(ParValues(log)) |-> Len(ParValues(log)[k].pins)]

\* send_data(U8([0x00, 0x00, 0xFF])), the first call on a bus fresh from new,
\* has returned Ok
ParFreshScenario ==
    /\ ParReturnedOk
    /\ par.fresh
    /\ par.kind = "data"
    /\ par.fmt = "U8"
    /\ par.orig = <<0, 0, 255>>

\* C12 as stated: in that call there are 3 WR strobes and 8, 0 and 8 data line
\* writes for the three bytes, 16 in the call.
C12_SixteenLineWrites ==
    ParFreshScenario =>
        /\ ParStrobes(par.log) = 3
        /\ LineWrites(par.log) = <<8, 0, 8>>

\* C12 as the code has it: the 8 writes that drive every line low are done by
\* Generic8BitBus::new; in the send_data call there are 3 WR strobes and 0, 0
\* and 8 data line writes (the 8 of the third byte all set_high), so 8 in the
\* call and 16 with those of new.
C12_LineWritesWithNew ==
    /\ (bus.state = "ready" /\ ~bus.used /\ bus.res = "Ok") =>
          /\ Len(bus.ops) = 8
          /\ \A k \in 1..8 : bus.ops[k] = BusPinOp(k - 1, "L", TRUE)
    /\ ParFreshScenario =>
          /\ ParStrobes(par.log) = 3
          /\ LineWrites(par.log) = <<0, 0, 8>>
          /\ \A k \in 1..8 : ParValues(par.log)[3].pins[k] = BusPinOp(k - 1, "H", TRUE)

\* the scenario has happened
C12_Witness == ParFreshScenario /\ Len(ParValues(par.log)) = 3

\* C13: when every pin operation succeeds, new drives each of the 8 data lines
\* low exactly once and leaves the cached value at 0, so no line of a bus is
\* undriven when the first word is presented; when a pin operation fails, new
\* returns BusWriteError, the failed operation is its last one and there is no
\* bus to present a word to.
C13_NewDrivesEveryLine ==
    /\ (bus.state = "ready" /\ ~bus.used) =>
          /\ bus.res = "Ok"
          /\ bus.last = 0
          /\ Len(bus.ops) = BusWidth
          /\ \A x \in 0..(BusWidth - 1) :
                Cardinality({k \in 1..Len(bus.ops) : bus.ops[k].pin = x}) = 1
          /\ \A k \in 1..Len(bus.ops) : bus.ops[k].level = "L" /\ bus.ops[k].ok
    /\ bus.state = "ready" => \A x \in 1..BusWidth : bus.pins[x] # "U"
    /\ bus.state = "failed" =>
          /\ bus.res = "BusWriteError"
          /\ bus.ops # <<>> /\ ~bus.ops[Len(bus.ops)].ok
          /\ \A k \in 1..(Len(bus.ops) - 1) : bus.ops[k].ok
          /\ ~bus.used /\ bus.calls = 0

\* new has succeeded and no word has been presented yet
C13_Witness ==
    /\ bus.state = "ready" /\ ~bus.used
    /\ Len(bus.ops) = BusWidth
    /\ \A x \in 1..BusWidth : bus.pins[x] = "L"

(***************************************************************************)
(* Properties of the SPI adapters: chip select and errors                  *)
(***************************************************************************)
\* the result of the mode pin and payload step, read off a call's log
PayloadResult(log) ==
    IF \E k \in 1..Len(log) : log[k].op \in {"dc_low", "dc_high"} /\ ~log[k].ok
    THEN "DCError"
    ELSE IF \E k \in 1..Len(log) : log[k].op = "write" /\ ~log[k].ok
    THEN "BusWriteError"
    ELSE "Ok"

\* C14: when a call of the synchronous adapter with chip select has asserted
\* CS, it returns the result of the mode pin and payload step whether CS
\* set_high succeeded or failed: Ok, DCError or BusWriteError, never CSError.
C14_DeassertFailureIgnored ==
    (spi.pc = "ret" /\ spi.log[1] = PinOp("cs_low", TRUE)) =>
        /\ spi.log[Len(spi.log)].op = "cs_high"
        /\ spi.res = PayloadResult(spi.log)
        /\ spi.res # "CSError"

\* a call whose payload went out has returned Ok although CS set_high failed
C14_Witness ==
    /\ spi.pc = "ret"
    /\ spi.res = "Ok"
    /\ WritesOf(spi.log) # <<>>
    /\ spi.log[Len(spi.log)] = PinOp("cs_high", FALSE)

\* C15: on the asynchronous adapter with chip select, a call whose payload
\* was transferred and whose CS set_high then failed returns Ok, not CSError.
C15_AsyncDeassertSwallowed ==
    (/\ spi.pc = "ret"
     /\ spi.adapter = AsyncCS
     /\ PayloadResult(spi.log) = "Ok"
     /\ spi.log[Len(spi.log)] = PinOp("cs_high", FALSE)) =>
        spi.res = "Ok"

\* C16: on the asynchronous adapter with chip select, every call that has
\* asserted CS attempts CS set_high before it returns, on the error path (DC
\* pin or SPI write failed) as on the success path.
C16_AsyncDeassertOnEveryPath ==
    (/\ spi.pc = "ret"
     /\ spi.res # "Cancelled"
     /\ spi.adapter = AsyncCS
     /\ spi.log[1] = PinOp("cs_low", TRUE)) =>
        \E k \in 2..Len(spi.log) : spi.log[k].op = "cs_high"

\* C17: on the synchronous adapters, a failed CS set_low is the only
\* operation of its call and the call returns CSError; after a failed DC pin
\* operation the call performs no SPI write and returns DCError; a call with
\* a failed SPI write returns BusWriteError.
C17_SyncErrorTaxonomy ==
    LET log == spi.log
        n == Len(log)
    IN  /\ \A k \in 1..n :
             /\ (log[k].op = "cs_low" /\ ~log[k].ok) => n = 1
             /\ (log[k].op \in {"dc_low", "dc_high"} /\ ~log[k].ok) =>
                    \A j \in 1..n : log[j].op # "write"
             /\ (log[k].op = "write" /\ ~log[k].ok) =>
                    \A j \in (k + 1)..n : log[j].op # "write"
        /\ spi.pc = "ret" =>
             /\ (n >= 1 /\ log[1] = PinOp("cs_low", FALSE)) => spi.res = "CSError"
             /\ (\E k \in 1..n : log[k].op \in {"dc_low", "dc_high"} /\ ~log[k].ok)
                    => spi.res = "DCError"
             /\ (\E k \in 1..n : log[k].op = "write" /\ ~log[k].ok)
                    => spi.res = "BusWriteError"
             /\ spi.res = "CSError" => log = <<PinOp("cs_low", FALSE)>>

\* a call of the adapter without chip select has returned DCError
C17_Witness ==
    /\ spi.pc = "ret"
    /\ spi.adapter = SyncNoCS
    /\ spi.res = "DCError"
    /\ Len(spi.log) = 1 /\ ~spi.log[1].ok

(***************************************************************************)
(* Properties of the SPI adapters: mode, order and byte order of the       *)
(* payload                                                                 *)
(***************************************************************************)
\* the bytes of 16-bit values, high byte first and low byte first
BeBytes(ws) == Concat([k \in 1..Len(ws) |-> <<ws[k] \div 256, ws[k] % 256>>])

LeBytes(ws) == Concat([k \in 1..Len(ws) |-> <<ws[k] % 256, ws[k] \div 256>>])

\* the bytes a payload stands for on the wire
WireBytes(fmt, p) ==
    CASE fmt \in {"U8", "U8Iter"} -> p
      [] fmt = "U16" -> IF host_le THEN LeBytes(p) ELSE BeBytes(p)
      [] fmt \in {"U16LE", "U16LEIter"} -> LeBytes(p)
      [] fmt \in {"U16BE", "U16BEIter"} -> BeBytes(p)

IsPrefix(a, b) == Len(a) <= Len(b) /\ a = SubSeq(b, 1, Len(a))

\* C18: over any sequence of calls on one SPI adapter, every SPI write of a
\* send_data call is issued while DC was last driven high and every SPI write
\* of a send_commands call while DC was last driven low, whatever the previous
\* call left; the writes of a call carry the bytes of that call's payload only,
\* in order (all of them when it returns Ok), and between two calls nothing
\* is held back for a later call.
C18_ModePerCall ==
    /\ \A k \in 1..Len(spi.log) :
          spi.log[k].op = "write" =>
             spi.log[k].dc = (IF spi.kind = "data" THEN "H" ELSE "L")
    /\ spi.pc # "idle" =>
          IsPrefix(Concat(WritesOf(spi.log)), WireBytes(spi.fmt, spi.orig))
    /\ SpiReturnedOk => Concat(WritesOf(spi.log)) = WireBytes(spi.fmt, spi.orig)
    /\ spi.pc = "idle" =>
          /\ spi.log = <<>>
          /\ spi.buf = <<>> /\ spi.i = 0
          /\ spi.iter = <<>> /\ spi.slice = <<>>

\* a send_data call following a send_commands call has issued several writes
\* and returned Ok
C18_Witness ==
    /\ SpiReturnedOk
    /\ spi.prev = "commands"
    /\ spi.kind = "data"
    /\ Len(WritesOf(spi.log)) >= 2

\* C19: for U16BE (resp. U16LE) with a slice of L values the SPI adapter
\* issues exactly one SPI write, of 2*L bytes: for each value in order its high
\* byte then its low byte (resp. low then high), on a little-endian and on a
\* big-endian host alike.
C19_SliceByteOrder ==
    (spi.fmt \in {"U16BE", "U16LE"} /\ spi.pc \in {"cs_high", "ret"}
        /\ \E k \in 1..Len(spi.log) : spi.log[k].op \in {"dc_low", "dc_high"}
                                        /\ spi.log[k].ok) =>
        LET w == WritesOf(spi.log) IN
        /\ Len(w) = 1
        /\ Len(w[1]) = 2 * Len(spi.orig)
        /\ w[1] = (IF spi.fmt = "U16BE" THEN BeBytes(spi.orig) ELSE LeBytes(spi.orig))

\* a U16BE slice of three values has been sent on a little-endian host
C19_Witness ==
    /\ SpiReturnedOk
    /\ host_le
    /\ spi.fmt = "U16BE"
    /\ Len(spi.orig) = 3
    /\ Len(WritesOf(spi.log)) = 1

\* C20: a successful call with U16BEIter (resp. U16LEIter) yielding L values
\* issues one SPI write per 64 (resp. 32) values plus one for a non-empty
\* remainder, none when L = 0; every write carries whole values, and the
\* writes concatenated are the two bytes of each value in order, high byte
\* first (resp. low byte first).
C20_IterByteOrder ==
    (SpiReturnedOk /\ spi.fmt \in {"U16BEIter", "U16LEIter"}) =>
        LET w == WritesOf(spi.log)
            L == Len(spi.orig)
            cap == IF spi.fmt = "U16BEIter" THEN 64 ELSE 32
            n == Len(w)
        IN  /\ n = CeilDiv(L, cap)
            /\ L = 0 => w = <<>>
            /\ \A k \in 1..(n - 1) : Len(w[k]) = 2 * cap
            /\ n > 0 => Len(w[n]) = 2 * (L - cap * (n - 1))
            /\ \A k \in 1..n : Len(w[k]) % 2 = 0 /\ Len(w[k]) > 0
            /\ Concat(w) = (IF spi.fmt = "U16BEIter" THEN BeBytes(spi.orig)
                                                      ELSE LeBytes(spi.orig))

\* a U16BEIter call of one full buffer and one more value has returned Ok on a
\* little-endian host
C20_Witness ==
    /\ SpiReturnedOk
    /\ host_le
    /\ spi.fmt = "U16BEIter"
    /\ Len(spi.orig) = 65
    /\ Len(WritesOf(spi.log)) = 2

\* a byte stream decoded pairwise as big-endian / little-endian 16-bit values
DecodeBe(bytes) == [k \in 1..(Len(bytes) \div 2) |-> bytes[2 * k - 1] * 256 + bytes[2 * k]]

DecodeLe(bytes) == [k \in 1..(Len(bytes) \div 2) |-> bytes[2 * k] * 256 + bytes[2 * k - 1]]

\* 16-bit values at the edges of the byte boundaries
RoundTripWords == {0, 1, 255, 256, 4660, 42435, 65280, 65535}

\* C21: the bytes the adapters produce for 16-bit values in big-endian order,
\* decoded pairwise as big-endian, are the original values, and likewise for
\* little-endian: for the SPI writes of a successful U16BE / U16BEIter /
\* U16LE / U16LEIter call, and for to_be_bytes / to_le_bytes of the parallel
\* adapter.
C21_EndianRoundTrip ==
    /\ (SpiReturnedOk /\ spi.fmt \in {"U16BE", "U16BEIter"}) =>
          /\ Len(Concat(WritesOf(spi.log))) = 2 * Len(spi.orig)
          /\ DecodeBe(Concat(WritesOf(spi.log))) = spi.orig
    /\ (SpiReturnedOk /\ spi.fmt \in {"U16LE", "U16LEIter"}) =>
          /\ Len(Concat(WritesOf(spi.log))) = 2 * Len(spi.orig)
          /\ DecodeLe(Concat(WritesOf(spi.log))) = spi.orig
    /\ \A v \in RoundTripWords :
          /\ DecodeBe(to_be_bytes(v)) = <<v>>
          /\ DecodeLe(to_le_bytes(v)) = <<v>>

\* a U16LEIter call of 65 values has returned Ok on a big-endian host
C21_Witness ==
    /\ SpiReturnedOk
    /\ ~host_le
    /\ spi.fmt = "U16LEIter"
    /\ Len(spi.orig) = 65
    /\ DecodeLe(Concat(WritesOf(spi.log))) = spi.orig

(***************************************************************************)
(* Properties of the 8-bit parallel adapter: 16-bit payloads and errors    *)
(***************************************************************************)
\* C22: on the 8-bit parallel adapter every 16-bit word of U16LE / U16LEIter
\* is emitted as two strobed bytes, low byte then high byte, and every word of
\* U16BE / U16BEIter as high byte then low byte, words in payload order; a
\* successful call has 2 WR strobes per word.
C22_ParallelWordOrder ==
    (par.pc \in {"byte", "ret"}
        /\ par.fmt \in {"U16LE", "U16LEIter", "U16BE", "U16BEIter"}) =>
        LET wire == IF par.fmt \in {"U16LE", "U16LEIter"}
                    THEN LeBytes(par.orig) ELSE BeBytes(par.orig)
        IN  /\ IsPrefix(ParEmitted(par.log), wire)
            /\ ParReturnedOk =>
                  /\ ParEmitted(par.log) = wire
                  /\ ParStrobes(par.log) = 2 * Len(par.orig)

\* a send_data call with a U16BEIter of two words has returned Ok
C22_Witness ==
    /\ ParReturnedOk
    /\ par.fmt = "U16BEIter"
    /\ Len(par.orig) = 2
    /\ ParStrobes(par.log) = 4

\* C23: a call of the parallel adapter in which a WR pin operation or a data
\* line operation failed returns BusWriteError, the failed operation being its
\* last one; a call whose DC pin operation failed returns DCError and has
\* performed no WR or data line operation.
C23_ParallelErrorTaxonomy ==
    par.pc = "ret" =>
        LET log == par.log
            n == Len(log)
        IN  /\ \A k \in 1..n :
                 /\ (log[k].op \in {"wr_low", "wr_high"} /\ ~log[k].ok) =>
                        par.res = "BusWriteError" /\ k = n
                 /\ (log[k].op = "set_value" /\ ~log[k].ok) =>
                        /\ par.res = "BusWriteError" /\ k = n
                        /\ log[k].pins # <<>>
                        /\ ~log[k].pins[Len(log[k].pins)].ok
                 /\ (ParIsDc(log[k]) /\ ~log[k].ok) =>
                        par.res = "DCError" /\ n = 1
            /\ par.res = "DCError" => n = 1 /\ ParIsDc(log[1]) /\ ~log[1].ok
            /\ par.res = "BusWriteError" =>
                   ~log[n].ok /\ log[n].op \in {"wr_low", "set_value", "wr_high"}

\* a call has returned BusWriteError because a data line failed after an
\* earlier byte had been strobed
C23_Witness ==
    /\ par.pc = "ret"
    /\ par.res = "BusWriteError"
    /\ par.log[Len(par.log)].op = "set_value"
    /\ ParStrobes(par.log) >= 1

(***************************************************************************)
(* Properties of the SPI and I2C adapters: failed writes, buffering        *)
(***************************************************************************)
\* the bytes one item of a format takes on the wire
BytesPerItem(fmt) == IF fmt \in ByteFormats THEN 1 ELSE 2

\* C24: in the SPI and I2C adapters a failed bus write is the last bus write
\* of its call (no retry, no further write), the call returns BusWriteError,
\* the payload iterator has given no item beyond those handed to the writes,
\* and the writes before the failed one stay as they were performed.
C24_WriteFailureStops ==
    /\ \A k \in 1..Len(spi.log) :
          (spi.log[k].op = "write" /\ ~spi.log[k].ok) =>
             /\ \A j \in (k + 1)..Len(spi.log) : spi.log[j].op # "write"
             /\ \A j \in 1..(k - 1) : spi.log[j].op = "write" => spi.log[j].ok
             /\ spi.pc \in {"cs_high", "ret"}
             /\ spi.pc = "ret" => spi.res = "BusWriteError"
             /\ spi.fmt \in IterFormats =>
                   (Len(spi.orig) - Len(spi.iter)) * BytesPerItem(spi.fmt)
                       = Len(Concat(WritesOf(spi.log)))
             /\ IsPrefix(Concat(WritesOf(spi.log)), WireBytes(spi.fmt, spi.orig))
    /\ \A k \in 1..Len(i2c.log) :
          ~i2c.log[k].ok =>
             /\ k = Len(i2c.log)
             /\ \A j \in 1..(k - 1) : i2c.log[j].ok
             /\ i2c.pc = "ret" /\ i2c.res = "BusWriteError"
             /\ (i2c.kind = "data" /\ i2c.fmt = "U8") =>
                   /\ Len(i2c.orig) - Len(i2c.rest) = Len(Concat(I2cPayloads(i2c.log)))
                   /\ IsPrefix(Concat(I2cPayloads(i2c.log)), i2c.orig)

\* an SPI call with U8Iter has returned BusWriteError: its second write
\* failed and the iterator still holds the bytes not yet asked for
C24_Witness ==
    /\ spi.pc = "ret"
    /\ spi.res = "BusWriteError"
    /\ spi.fmt = "U8Iter"
    /\ Len(WritesOf(spi.log)) = 2
    /\ spi.iter # <<>>

\* the items a call has taken from its payload so far
SpiTaken ==
    IF spi.fmt \in IterFormats
    THEN SubSeq(spi.orig, 1, Len(spi.orig) - Len(spi.iter))
    ELSE spi.orig

\* when a call has returned Ok, all it took from its payload has gone out in
\* successful SPI writes of that call
SpiAllWritten ==
    SpiReturnedOk =>
        /\ \A k \in 1..Len(spi.log) : spi.log[k].ok \/ spi.log[k].op = "cs_high"
        /\ Concat(WritesOf(spi.log)) = WireBytes(spi.fmt, SpiTaken)

\* a step taken once the call has returned performs no bus or pin operation
SpiQuietAfterReturn == spi.pc \in {"ret", "idle"} => spi'.log = <<>>

\* C25: over any sequence of calls on one SPI adapter, when a call returns Ok
\* every payload byte taken from its slice or iterator has been passed to an
\* SPI write of that call, nothing being left in the chunk buffer, and no
\* operation of a call happens after it has returned.
C25_NoBufferingAcrossCalls == []SpiAllWritten /\ [][SpiQuietAfterReturn]_vars

\* the second call in a row has returned Ok after a trailing write of a
\* partly filled buffer
C25_Witness ==
    /\ SpiReturnedOk
    /\ spi.prev # "none"
    /\ spi.fmt \in IterFormats
    /\ spi.i \in 1..31
    /\ Len(WritesOf(spi.log)) >= 2

(***************************************************************************)
(* Properties of release                                                   *)
(***************************************************************************)
\* a release step changes nothing of its adapter but hands it back: no pin
\* level, no cached value, and no operation is logged
ReleaseStep ==
    /\ (spi.pc # "released" /\ spi'.pc = "released") =>
          /\ spi'.cs = spi.cs /\ spi'.dc = spi.dc
          /\ spi'.log = <<>> /\ spi.log = <<>>
    /\ (i2c.pc # "released" /\ i2c'.pc = "released") =>
          i2c'.log = <<>> /\ i2c.log = <<>>
    /\ (par.pc # "released" /\ par'.pc = "released") =>
          /\ par'.dc = par.dc /\ par'.wr = par.wr
          /\ par'.log = <<>> /\ par.log = <<>>
          /\ bus' = bus
    /\ (bus.state # "released" /\ bus'.state = "released") =>
          /\ bus'.pins = bus.pins /\ bus'.last = bus.last
          /\ bus'.ops = bus.ops
          /\ par' = par

\* C26: release on every adapter and on Generic8BitBus hands the peripherals
\* back without any pin or bus operation: the pin levels after it are those
\* the last operation before it left.
C26_ReleaseKeepsPins == [][ReleaseStep]_vars

\* the parallel adapter and then its bus have been released after a call that
\* left data lines high
C26_Witness ==
    /\ par.pc = "released"
    /\ bus.state = "released"
    /\ bus.last = 255
    /\ \A x \in 1..BusWidth : bus.pins[x] = "H"

(***************************************************************************)
(* Properties of chip select at the end of a call                          *)
(***************************************************************************)
\* the number of CS set_high attempts of a log
CsHighAttempts(log) == Cardinality({k \in 1..Len(log) : log[k].op = "cs_high"})

\* C27: on the synchronous SPI adapter with chip select, a returned call whose
\* CS set_low succeeded has made exactly one CS set_high attempt, as its last
\* operation, whether the payload step gave Ok, DCError or BusWriteError; CS is
\* high after the call unless that set_high failed. A call whose CS set_low
\* failed makes no attempt.
C27_DeassertOnEveryPath ==
    (spi.pc = "ret" /\ spi.adapter = SyncCS) =>
        LET n == Len(spi.log) IN
        /\ spi.log[1] = PinOp("cs_low", TRUE) =>
              /\ CsHighAttempts(spi.log) = 1
              /\ spi.log[n].op = "cs_high"
              /\ spi.log[n].ok => spi.cs = "H"
              /\ spi.res \in {"Ok", "DCError", "BusWriteError"}
        /\ spi.log[1] = PinOp("cs_low", FALSE) => CsHighAttempts(spi.log) = 0

\* a call whose second SPI write failed has returned BusWriteError with chip
\* select driven high again
C27_Witness ==
    /\ spi.pc = "ret"
    /\ spi.adapter = SyncCS
    /\ spi.res = "BusWriteError"
    /\ Len(WritesOf(spi.log)) = 2
    /\ spi.log[Len(spi.log)] = PinOp("cs_high", TRUE)
    /\ spi.cs = "H"

\* C28: on the asynchronous adapter with chip select, a call cancelled while
\* suspended at an SPI write, after CS was asserted, has made no CS set_high
\* attempt and leaves chip select low; every operation it made before had
\* completed, and DC is at the level the call drove.
C28_CancelLeavesCsAsserted ==
    (spi.pc = "ret" /\ spi.res = "Cancelled") =>
        /\ spi.log[1] = PinOp("cs_low", TRUE)
        /\ CsHighAttempts(spi.log) = 0
        /\ spi.cs = "L"
        /\ \A k \in 1..Len(spi.log) : spi.log[k].ok
        /\ spi.dc = (IF spi.kind = "data" THEN "H" ELSE "L")

\* a call has been cancelled at its second SPI write
C28_Witness ==
    /\ spi.pc = "ret"
    /\ spi.res = "Cancelled"
    /\ Len(WritesOf(spi.log)) = 1
    /\ spi.iter # <<>>

(***************************************************************************)
(* Properties of the caller's slice                                        *)
(***************************************************************************)
\* a 16-bit value with its two bytes exchanged
Swapped(v) == (v % 256) * 256 + (v \div 256)

\* the caller's slice after send_u8 has run on it
SliceAfter(fmt, p) ==
    CASE fmt = "U16BE" -> [k \in 1..Len(p) |-> IF host_le THEN Swapped(p[k]) ELSE p[k]]
      [] fmt = "U16LE" -> [k \in 1..Len(p) |-> IF host_le THEN p[k] ELSE Swapped(p[k])]
      [] OTHER -> p

\* C29: on the SPI adapter, once send_u8 has run on a U16BE (resp. U16LE)
\* slice, every element v of the caller's slice holds to_be(v) (resp.
\* to_le(v)): byte-swapped when the named order differs from the host's,
\* unchanged otherwise, also when the SPI write failed; U8 and U16 slices are
\* never modified.
C29_SliceConvertedInPlace ==
    (spi.fmt \in SliceFormats /\ spi.pc \in {"cs_high", "ret"}) =>
        /\ WritesOf(spi.log) # <<>> => spi.slice = SliceAfter(spi.fmt, spi.orig)
        /\ spi.fmt \in {"U8", "U16"} => spi.slice = spi.orig
        /\ (spi.fmt = "U16BE" /\ ~host_le) => spi.slice = spi.orig
        /\ (spi.fmt = "U16LE" /\ host_le) => spi.slice = spi.orig

\* a U16BE call on a little-endian host has returned BusWriteError and the
\* caller's slice is no longer what it was
C29_Witness ==
    /\ spi.pc = "ret"
    /\ spi.res = "BusWriteError"
    /\ host_le
    /\ spi.fmt = "U16BE"
    /\ Len(spi.orig) = 3
    /\ spi.slice # spi.orig
    /\ spi.slice = SliceAfter("U16BE", spi.orig)

(***************************************************************************)
(* Properties of the formats the parallel adapter accepts                  *)
(***************************************************************************)
\* C30: parallel send_commands with U16BEIter or U16LEIter returns
\* DataFormatNotImplemented after it has driven DC low, with no WR or data
\* line operation; parallel send_data never returns DataFormatNotImplemented
\* for any of the seven formats.
C30_ParallelFormats ==
    par.pc = "ret" =>
        /\ (par.kind = "commands" /\ par.fmt \in {"U16BEIter", "U16LEIter"}) =>
              /\ par.res \in {"DataFormatNotImplemented", "DCError"}
              /\ par.res = "DataFormatNotImplemented" =>
                    /\ par.log = <<ParPin("dc_low", TRUE)>>
                    /\ par.dc = "L"
              /\ par.res = "DCError" => par.log = <<ParPin("dc_low", FALSE)>>
        /\ par.res = "DataFormatNotImplemented" =>
              par.kind = "commands" /\ par.fmt \in {"U16BEIter", "U16LEIter"}
        /\ par.kind = "data" => par.res # "DataFormatNotImplemented"

\* send_commands with a U16LEIter of two words has returned
\* DataFormatNotImplemented
C30_Witness ==
    /\ par.pc = "ret"
    /\ par.kind = "commands"
    /\ par.fmt = "U16LEIter"
    /\ Len(par.orig) = 2
    /\ par.res = "DataFormatNotImplemented"
    /\ par.dc = "L"

(***************************************************************************)
(* Properties of the I2C command buffer                                    *)
(***************************************************************************)
\* C31: I2C send_commands called with a U8 slice of more than 7 bytes performs
\* no I2C write and returns no DisplayError value: it panics on the
\* out-of-range index into its 8-byte write buffer; with at most 7 bytes it
\* does not panic.
C31_LongCommandPanics ==
    (I2cReturned /\ i2c.kind = "commands" /\ i2c.fmt = "U8") =>
        /\ Len(i2c.orig) > 7 =>
              /\ i2c.res = "Panic"
              /\ i2c.log = <<>>
              /\ i2c.writebuf = Zeros(8)
        /\ Len(i2c.orig) <= 7 => i2c.res \in {"Ok", "BusWriteError"}

\* send_commands with a U8 slice of 8 bytes has panicked before any write
C31_Witness ==
    /\ I2cReturned
    /\ i2c.kind = "commands"
    /\ i2c.fmt = "U8"
    /\ Len(i2c.orig) = 8
    /\ i2c.res = "Panic"
    /\ i2c.log = <<>>

(***************************************************************************)
(* Properties of the bus cache after a failed data line                    *)
(***************************************************************************)
\* a step in which set_value runs on the bus (that of new included)
SetValueStep ==
    \/ bus'.calls = bus.calls + 1
    \/ bus.state = "none" /\ bus'.state # "none"

\* C32: when a data line fails during set_value(v), set_value returns
\* BusWriteError with the cached value unchanged, the changed lines of a lower
\* bit index driven to v's bits and every other line as it was; a set_value of
\* the cached value performs no pin operation and leaves every line as it is.
C32_FailedSetValue ==
    [][SetValueStep =>
         /\ bus'.res # "Ok" =>
               /\ bus'.res = "BusWriteError"
               /\ bus'.last = bus.last
               /\ bus'.ops # <<>>
               /\ LET v == bus'.arg
                      f == bus'.ops[Len(bus'.ops)].pin
                  IN  /\ ~bus'.ops[Len(bus'.ops)].ok
                      /\ LevelOfBit(v, f) # LevelOfBit(bus.last, f)
                      /\ \A x \in 0..(BusWidth - 1) :
                            bus'.pins[x + 1] =
                               IF x < f /\ LevelOfBit(v, x) # LevelOfBit(bus.last, x)
                               THEN LevelOfBit(v, x)
                               ELSE bus.pins[x + 1]
         /\ bus'.arg = bus.last =>
               /\ bus'.res = "Ok"
               /\ bus'.ops = <<>>
               /\ bus'.pins = bus.pins
               /\ bus'.last = bus.last
    ]_vars

\* a set_value failed after it had driven a line, the following set_value of
\* the cached value did nothing, and a line is not at the cached value's bit
C32_Witness ==
    /\ bus.state = "ready"
    /\ bus.faulted
    /\ bus.calls >= 2
    /\ bus.res = "Ok"
    /\ bus.arg = bus.last
    /\ bus.ops = <<>>
    /\ \E x \in 0..(BusWidth - 1) : bus.pins[x + 1] # LevelOfBit(bus.last, x)

(***************************************************************************)
(* Properties of the default read                                          *)
(***************************************************************************)
\* a call of read is in progress or has returned
ReadActive == rd.pc \in {"stream", "ret"}

\* C33: the default read(buf) stores the streamed items in arrival order into
\* buf[0..n], never stores at an index >= buf.len(), and its callback returns
\* false exactly when it is invoked with the buffer already full; the item of
\* such an invocation is discarded (for an empty buf, the first item already).
C33_DefaultRead ==
    ReadActive =>
        /\ rd.res # "Panic"
        /\ Len(rd.buf) = Len(rd.orig)
        /\ Len(rd.rets) = Len(rd.given)
        /\ rd.n = Min(Len(rd.given), Len(rd.buf))
        /\ \A k \in 1..Len(rd.buf) :
              rd.buf[k] = IF k <= rd.n THEN rd.given[k] ELSE rd.orig[k]
        /\ \A k \in 1..Len(rd.rets) : rd.rets[k] = (k <= Len(rd.buf))

\* read_stream has streamed three items into a buffer of two and returned Ok:
\* the third invocation answered false and its item is not in the buffer
C33_Witness ==
    /\ rd.pc = "ret"
    /\ rd.res = "Ok"
    /\ Len(rd.buf) = 2
    /\ rd.given = <<1, 2, 1>>
    /\ rd.rets = <<TRUE, TRUE, FALSE>>
    /\ rd.buf = <<1, 2>>

====
